---- MODULE Spec2Model ----
(***************************************************************************)
(* Model of seaborn/plotobjs.py: the high level plotting functions and the *)
(* pyplot / axis state they act on.  Every public function is one action;  *)
(* its body is an operator that threads a working state W through the      *)
(* statements of the function in source order and records every axis       *)
(* operation it performs in W.log.                                         *)
(***************************************************************************)
EXTENDS Integers, Sequences, FiniteSets, TLC

\* ------------------------------------------------------------------ bounds
MaxAxes == 4        \* axis objects that can exist
MaxStyles == 2      \* longest err_style list
MaxObs == 2         \* observations per bin / rows of an array
MaxBins == 2        \* bins / columns of an array / sequence length
MaxVars == 2        \* variables of a correlation matrix

\* -------------------------------------------------------- program constants
N_BOOT == 10000     \* default n_boot of tsplot
BootTraceCap == 250 \* boot_data[:250]

VARIABLES
    plt,        \* pyplot state: [fig, geom, cur]
    axs,        \* axis id -> [art, cyc, xticks, xticklabels]
    overlapDel, \* whether this matplotlib deletes axes a new subplot overlaps
    last        \* record of the library call made, fn = "" before it

vars == <<plt, axs, overlapDel, last>>

AxisIds == 1..MaxAxes
None == 0
Geoms == {"111", "121"}
Cycle == <<"b", "g", "r">>
UserColor == "k"
gray == "#555555"
StyleNames == {"ci_band", "ci_bars", "boot_traces", "obs_traces", "obs_points"}

Min(a, b) == IF a < b THEN a ELSE b
SeqsUpTo(S, n) == UNION {[1..k -> S] : k \in 0..n}
Ints(lo, n) == [i \in 1..n |-> lo + i - 1]

\* keyword dictionaries (**kwargs): functions from names to values
NoKw == <<>>
Has(kw, k) == k \in DOMAIN kw
Pop(kw, k) == [x \in (DOMAIN kw) \ {k} |-> kw[x]]
Get(kw, k, default) == IF Has(kw, k) THEN kw[k] ELSE default
With(kw, k, v) == [x \in (DOMAIN kw) \cup {k} |-> IF x = k THEN v ELSE kw[x]]
KwColor(kw) == Get(kw, "color", "")

\* optional arguments: {} is None, {v} is the value v
NoneArg == {}
Some(v) == {v}
The(o) == CHOOSE v \in o : TRUE

\* ------------------------------------------------------------ axis objects
NoAxis == [art |-> <<>>, cyc |-> 0, xticks |-> <<>>, xticklabels |-> <<>>,
           made |-> FALSE]

Op(op, ax, kind, color, n, xs, kw, data) ==
    [op |-> op, ax |-> ax, kind |-> kind, color |-> color, n |-> n,
     xs |-> xs, kw |-> kw, data |-> data]

Logged(W, o) == [W EXCEPT !.log = Append(@, o)]

Overlaps(g, h) == g = h \/ g = "111" \/ h = "111"

FreshAxis(W) == CHOOSE b \in AxisIds :
                    /\ ~W.axs[b].made
                    /\ \A c \in AxisIds : c < b => W.axs[c].made

\* plt.subplot(g): the axis of that geometry in the current figure if there
\* is one, else a new axis added to the figure; either way it becomes the
\* current axis.  Older matplotlib removes the axes the new one overlaps.
Subplot(W, g) ==
    LET have == {a \in W.plt.fig : W.plt.geom[a] = g} IN
    IF have # {}
    THEN LET a == CHOOSE b \in have : TRUE
         IN [W EXCEPT !.plt.cur = a]
    ELSE LET a == FreshAxis(W)
             keep == IF W.del
                     THEN {c \in W.plt.fig : ~Overlaps(g, W.plt.geom[c])}
                     ELSE W.plt.fig
         IN Logged([W EXCEPT !.plt.fig = keep \cup {a},
                             !.plt.geom[a] = g,
                             !.plt.cur = a,
                             !.axs[a].made = TRUE],
                   Op("subplot", a, g, "", 0, <<>>, {}, <<>>))

\* plt.colorbar(mat_img): a new axis for the colour bar is added to the
\* figure next to the current axis, which stays current.
Colorbar(W) ==
    LET a == FreshAxis(W)
    IN Logged([W EXCEPT !.plt.fig = @ \cup {a},
                        !.plt.geom[a] = "cbar",
                        !.axs[a].made = TRUE],
              Op("colorbar", a, "cbar", "", 0, <<>>, {}, <<>>))

\* ax.plot(..., **kw), ax.plot(..., color=c, **kw), ax.plot(..., fmt):
\* c is the colour the call names ("" when it names none); without one the
\* line takes the next colour of the axis' cycle.
AxPlot(W, a, kind, c, n, xs, kw, data) ==
    LET col == IF c # "" THEN c ELSE Cycle[W.axs[a].cyc + 1]
        o == Op("plot", a, kind, col, n, xs, DOMAIN kw, data)
    IN Logged([W EXCEPT !.axs[a].art = Append(@, o),
                        !.axs[a].cyc = IF c = "" THEN (@ + 1) % Len(Cycle)
                                       ELSE @],
              o)

\* Any other drawing method of the axis that adds an artist.
AxDraw(W, a, op, kind, c, n, xs, kw, data) ==
    LET o == Op(op, a, kind, c, n, xs, DOMAIN kw, data)
    IN Logged([W EXCEPT !.axs[a].art = Append(@, o)], o)

\* Setters of the axis, which add no artist.
AxSet(W, a, op, xs) ==
    LET W1 == CASE op = "set_xticks" -> [W EXCEPT !.axs[a].xticks = xs]
                [] op = "set_xticklabels" -> [W EXCEPT !.axs[a].xticklabels = xs]
                [] OTHER -> W
    IN Logged(W1, Op(op, a, "", "", 0, xs, {}, <<>>))

LastArt(W, a) == W.axs[a].art[Len(W.axs[a].art)]

\* line.remove() of the line the axis' last plot call returned.
LineRemove(W, a) ==
    Logged([W EXCEPT !.axs[a].art = SubSeq(@, 1, Len(@) - 1)],
           Op("remove", a, LastArt(W, a).kind, LastArt(W, a).color, 0, <<>>,
              {}, <<>>))

Ok(W, a) == [W |-> W, status |-> "ok", ret |-> a]
Raise(W, e) == [W |-> W, status |-> e, ret |-> None]

\* Mutant of PopAx: the caller's axis is dropped and the new subplot used.
PopAxIgnoring(W, kwargs) ==
    LET W1 == Subplot(W, "111")
    IN [W |-> W1, ax |-> W1.plt.cur, kwargs |-> Pop(kwargs, "ax")]

\* ax = kwargs.pop("ax", plt.subplot(111)): the default is evaluated before
\* the lookup, so plt.subplot(111) runs whether or not kwargs has "ax".
PopAx(W, kwargs) ==
    LET W1 == Subplot(W, "111")
    IN [W |-> W1, ax |-> Get(kwargs, "ax", W1.plt.cur), kwargs |-> Pop(kwargs, "ax")]

\* if ax is None: ax = plt.subplot(111)
AxOrNew(W, axArg) ==
    IF axArg = None
    THEN LET W1 == Subplot(W, "111") IN [W |-> W1, ax |-> W1.plt.cur]
    ELSE [W |-> W, ax |-> axArg]

\* ------------------------------------------------------------------ tsplot
_plot_ci_band(W, ax, nobs, color) ==
    AxDraw(W, ax, "fill_between", "ci_band", color, 1, <<>>, NoKw, <<>>)

_plot_ci_bars(W, ax, nobs, color) ==
    AxDraw(W, ax, "errorbar", "ci_bars", color, 1, <<>>, NoKw, <<>>)

_plot_boot_traces(W, ax, nobs, color) ==
    AxPlot(W, ax, "boot_traces", color, Min(BootTraceCap, N_BOOT), <<>>, NoKw, <<>>)

_plot_obs_traces(W, ax, nobs, color) ==
    AxPlot(W, ax, "obs_traces", color, nobs, <<>>, NoKw, <<>>)

_plot_obs_points(W, ax, nobs, color) ==
    AxPlot(W, ax, "obs_points", color, nobs, <<>>, NoKw, <<>>)

\* Mutant of HasPlotFunc: one of the routines is missing from the module.
HasPlotFuncMissing(style) == style \in StyleNames \ {"obs_points"}

\* globals()["_plot_%s" % style] succeeds for the module's names of that form.
HasPlotFunc(style) == style \in StyleNames

PlotFunc(style, W, ax, nobs, color) ==
    CASE style = "ci_band" -> _plot_ci_band(W, ax, nobs, color)
      [] style = "ci_bars" -> _plot_ci_bars(W, ax, nobs, color)
      [] style = "boot_traces" -> _plot_boot_traces(W, ax, nobs, color)
      [] style = "obs_traces" -> _plot_obs_traces(W, ax, nobs, color)
      [] style = "obs_points" -> _plot_obs_points(W, ax, nobs, color)

\* for style in err_style: ..., from entry i on.
RECURSIVE ErrStyleLoop(_, _, _, _, _, _)
ErrStyleLoop(W, ax, nobs, color, err_style, i) ==
    IF i > Len(err_style) THEN Ok(W, ax)
    ELSE IF ~HasPlotFunc(err_style[i]) THEN Raise(W, "ValueError")
    ELSE ErrStyleLoop(PlotFunc(err_style[i], W, ax, nobs, color),
                      ax, nobs, color, err_style, i + 1)

\* tsplot has ax among its named parameters, so an ax keyword is bound to
\* that parameter and never reaches kwargs: the pop always finds kwargs
\* without "ax".
TsplotAxis(W, axArg, kwargs) == PopAx(W, kwargs)

\* Mutant of TsplotCentral: the central trace is replotted without the
\* probe's colour.
TsplotCentralCycled(W, ax, color, kwargs) ==
    IF Has(kwargs, "color") THEN Raise(W, "TypeError")
    ELSE Ok(AxPlot(W, ax, "central", "", 1, <<>>, kwargs, <<>>), ax)

\* ax.plot(x, central_data, color=color, **kwargs): a color in kwargs is a
\* second value for the same keyword.
TsplotCentral(W, ax, color, kwargs) ==
    IF Has(kwargs, "color") THEN Raise(W, "TypeError")
    ELSE Ok(AxPlot(W, ax, "central", color, 1, <<>>, kwargs, <<>>), ax)

tsplot(W, nobs, err_style, axArg, kwargs) ==
    LET p == TsplotAxis(W, axArg, kwargs)
        ax == p.ax
        W2 == AxPlot(p.W, ax, "probe", KwColor(p.kwargs), 1, <<>>, p.kwargs, <<>>)
        color == LastArt(W2, ax).color
        W3 == LineRemove(W2, ax)
        r == ErrStyleLoop(W3, ax, nobs, color, err_style, 1)
    IN IF r.status # "ok" THEN r
       ELSE TsplotCentral(r.W, ax, color, p.kwargs)

\* ------------------------------------------------------- regplot, rugplot
regplot(W, axArg, kwargs) ==
    LET p == AxOrNew(W, axArg)
        ax == p.ax
        W2 == AxPlot(p.W, ax, "scatter", "", 1, <<>>, NoKw, <<>>)
        W3 == AxPlot(W2, ax, "regline", KwColor(kwargs), 1, <<>>, kwargs, <<>>)
        W4 == AxSet(W3, ax, "set_title", <<>>)
        W5 == AxSet(W4, ax, "set_xlabel", <<>>)
        W6 == AxSet(W5, ax, "set_ylabel", <<>>)
    IN Ok(W6, ax)

rugplot(W, n, axArg, kwargs) ==
    LET p == AxOrNew(W, axArg)
    IN Ok(AxPlot(p.W, p.ax, "rug", KwColor(kwargs), n, <<>>, kwargs, <<>>), p.ax)

\* ----------------------------------------------------------------- kdeplot
kdeplot(W, n, hist, rug, shade, kwargs0) ==
    LET p == PopAx(W, kwargs0)
        ax == p.ax
        W2 == AxPlot(p.W, ax, "probe", KwColor(p.kwargs), 1, <<>>, p.kwargs, <<>>)
        color == LastArt(W2, ax).color
        W3 == LineRemove(W2, ax)
        kwargs == Pop(p.kwargs, "color")
        W4 == IF hist
              THEN AxDraw(W3, ax, "hist", "hist", color, 1, <<>>, NoKw, <<>>)
              ELSE W3
        W5 == AxPlot(W4, ax, "kde", color, 1, <<>>, kwargs, <<>>)
        W6 == IF rug
              THEN rugplot(W5, n, ax, [color |-> color, alpha |-> "", linewidth |-> ""]).W
              ELSE W5
        W7 == IF shade
              THEN AxDraw(W6, ax, "fill_between", "shade", color, 1, <<>>, NoKw, <<>>)
              ELSE W6
    IN Ok(W7, ax)

\* ------------------------------------------------------- data containers
\* vals is described by its form and shape: form "array" is a numeric numpy
\* array of that shape, "scalars" a flat sequence of shape[1] numbers and
\* "arrays" a sequence of shape[1] arrays of shape[2] values each.  A value
\* is named by its index tuple.
Arr(shape) == [form |-> "array", shape |-> shape]
Scalars(n) == [form |-> "scalars", shape |-> <<n>>]
Arrays(k, n) == [form |-> "arrays", shape |-> <<k, n>>]

HasShape(vals) == vals.form = "array"
NDim(vals) == Len(vals.shape)
PyLen(vals) == vals.shape[1]

Item(dim, cells) == [dim |-> dim, cells |-> cells]
HasLen(item) == item.dim >= 1
Cell1(j) == <<j>>
Cell2(i, j) == <<i, j>>
Row(i, nc) == [j \in 1..nc |-> Cell2(i, j)]
Column(j, nr) == [i \in 1..nr |-> Cell2(i, j)]
\* the values of a 2-D array in row-major order
Ravel(nr, nc) == [m \in 1..(nr * nc) |-> Cell2(((m - 1) \div nc) + 1, ((m - 1) % nc) + 1)]

RECURSIVE Flatten(_)
Flatten(items) ==
    IF items = <<>> THEN <<>> ELSE items[1].cells \o Flatten(Tail(items))

\* A python sequence as the list of its items.
SeqItems(vals) ==
    IF vals.form = "scalars"
    THEN [j \in 1..vals.shape[1] |-> Item(0, <<Cell1(j)>>)]
    ELSE [i \in 1..vals.shape[1] |-> Item(1, Row(i, vals.shape[2]))]

\* ----------------------------------------------------------------- boxplot
\* The number of boxes ax.boxplot(vals) draws: one per array of a sequence,
\* one per column of a 2-D array with several rows and columns.
BoxCount(vals) ==
    IF vals.form = "arrays" THEN vals.shape[1]
    ELSE IF NDim(vals) = 2 /\ vals.shape[1] # 1 /\ vals.shape[2] # 1
         THEN vals.shape[2]
    ELSE 1

\* if color is None: the colour probe, which also takes positions out of
\* kwargs.
BoxplotProbe(W, ax, color, kwargs) ==
    IF color = NoneArg
    THEN LET pos == Get(kwargs, "positions", <<1>>)[1]
             kw == Pop(kwargs, "positions")
             W1 == AxPlot(W, ax, "probe", KwColor(kw), 1, <<pos>>, kw, <<>>)
         IN [W |-> LineRemove(W1, ax), color |-> LastArt(W1, ax).color, kwargs |-> kw]
    ELSE [W |-> W, color |-> The(color), kwargs |-> kwargs]

\* ax.plot(range(1, len(vals) + 1), vals, ...): one line per column of vals
\* taken as a 2-D array, its points at x = 1 .. len(vals).
BoxplotJoin(W, ax, vals, color) ==
    AxPlot(W, ax, "join", color, vals.shape[2], Ints(1, PyLen(vals)),
           [color |-> color, alpha |-> ""],
           [j \in 1..vals.shape[2] |-> Column(j, vals.shape[1])])

\* len(vals) != len(names)
BoxplotNamesBad(vals, names) == PyLen(vals) # Len(names)

boxplot(W, vals, join_rm, names, color, kwargs0) ==
    LET p == PopAx(W, kwargs0)
        ax == p.ax
        q == BoxplotProbe(p.W, ax, color, p.kwargs)
        W2 == AxDraw(q.W, ax, "boxplot", "boxes", q.color, BoxCount(vals),
                     Get(q.kwargs, "positions", Ints(1, BoxCount(vals))),
                     With(q.kwargs, "patch_artist", TRUE), <<>>)
        W3 == IF join_rm THEN BoxplotJoin(W2, ax, vals, q.color) ELSE W2
    IN IF names = NoneArg THEN Ok(W3, ax)
       ELSE IF BoxplotNamesBad(vals, The(names)) THEN Raise(W3, "ValueError")
       ELSE Ok(AxSet(W3, ax, "set_xticklabels", The(names)), ax)

\* ------------------------------------------------------------------ violin
\* Mutant of ViolinFromArray: a 2-D array is split by rows, not columns.
ViolinFromArrayRows(vals) ==
    IF NDim(vals) = 1
    THEN IF vals.shape[1] = 0 THEN [status |-> "IndexError", items |-> <<>>]
         ELSE [status |-> "ok",
               items |-> [j \in 1..vals.shape[1] |-> Item(0, <<Cell1(j)>>)]]
    ELSE IF NDim(vals) = 2
    THEN LET nr == vals.shape[1]
             nc == vals.shape[2]
         IN [status |-> "ok",
             items |-> IF nr = 1 THEN <<Item(2, Ravel(nr, nc))>>
                       ELSE IF nc = 1 THEN <<Item(1, Ravel(nr, nc))>>
                       ELSE [i \in 1..nr |-> Item(1, Row(i, nc))]]
    ELSE [status |-> "ValueError", items |-> <<>>]

\* Lines 312-327: what an object with a shape attribute becomes.
ViolinFromArray(vals) ==
    IF NDim(vals) = 1
    THEN IF vals.shape[1] = 0 THEN [status |-> "IndexError", items |-> <<>>]
         \* the elements of a numeric array are numpy scalars, which have a
         \* shape attribute: list(vals)
         ELSE [status |-> "ok",
               items |-> [j \in 1..vals.shape[1] |-> Item(0, <<Cell1(j)>>)]]
    ELSE IF NDim(vals) = 2
    THEN LET nr == vals.shape[1]
             nc == vals.shape[2]
         IN [status |-> "ok",
             items |-> IF nr = 1 THEN <<Item(2, Ravel(nr, nc))>>
                       ELSE IF nc = 1 THEN <<Item(1, Ravel(nr, nc))>>
                       ELSE [i \in 1..nc |-> Item(1, Column(i, nr))]]
    ELSE [status |-> "ValueError", items |-> <<>>]

\* Lines 328-329: a list whose first item has no length is one container.
ViolinWrap(items) ==
    IF items = <<>> THEN [status |-> "IndexError", items |-> <<>>]
    ELSE IF ~HasLen(items[1])
    THEN [status |-> "ok", items |-> <<Item(1, Flatten(items))>>]
    ELSE [status |-> "ok", items |-> items]

\* Lines 312-331: the arrays the violins are built from, one per violin.
ViolinNormalise(vals) ==
    LET a == IF HasShape(vals) THEN ViolinFromArray(vals)
             ELSE [status |-> "ok", items |-> SeqItems(vals)]
    IN IF a.status # "ok" THEN a ELSE ViolinWrap(a.items)

\* Lines 339-342: the x position of every violin.
ViolinPosition(position, k) ==
    CASE position.kind = "none" -> Ints(1, k)
      [] position.kind = "scalar" -> Ints(position.v[1], k)
      [] position.kind = "seq" -> position.v

\* Lines 344-368: one violin at x.
ViolinOne(W, ax, x, a, inner, color) ==
    LET W1 == AxDraw(W, ax, "fill_betweenx", "body", color, 1, <<x>>,
                     [alpha |-> "", color |-> color], a.cells)
        W2 == IF inner = "box"
              THEN LET Q1 == AxPlot(W1, ax, "quartile", gray, 1, <<x>>, NoKw, <<>>)
                       Q2 == AxPlot(Q1, ax, "quartile", gray, 1, <<x>>, NoKw, <<>>)
                   IN AxPlot(Q2, ax, "median", gray, 1, <<x>>, NoKw, <<>>)
              ELSE IF inner = "stick"
              THEN AxPlot(W1, ax, "sticks", gray, Len(a.cells), <<x>>, NoKw, <<>>)
              ELSE W1
        W3 == AxPlot(W2, ax, "outline", gray, 1, <<x>>, NoKw, <<>>)
    IN AxPlot(W3, ax, "outline", gray, 1, <<x>>, NoKw, <<>>)

\* for i, a in enumerate(vals): ..., from violin i on.
RECURSIVE ViolinLoop(_, _, _, _, _, _, _)
ViolinLoop(W, ax, items, position, inner, color, i) ==
    IF i > Len(items) THEN Ok(W, ax)
    ELSE IF i > Len(position) THEN Raise(W, "IndexError")
    ELSE ViolinLoop(ViolinOne(W, ax, position[i], items[i], inner, color),
                    ax, items, position, inner, color, i + 1)

\* ax.plot(range(1, len(np.transpose(vals)) + 1), np.transpose(vals), ...):
\* with k arrays of n values the transpose is n x k, so x is 1 .. n and
\* there is one line per column of the transpose, that is per violin.
\* Containers that are not 1-D give more than 2 dimensions, which plot
\* refuses.
ViolinJoin(W, ax, items, position, color) ==
    IF \E i \in 1..Len(items) : items[i].dim # 1
    THEN Raise(W, "ValueError")
    ELSE Ok(AxPlot(W, ax, "join", color, Len(items),
                   Ints(1, Len(items[1].cells)),
                   [color |-> color, alpha |-> ""],
                   [c \in 1..Len(items) |-> items[c].cells]), ax)

\* len(vals) != len(names)
ViolinNamesBad(items, names) == Len(items) # Len(names)

\* Lines 374-381.
ViolinFinish(W, ax, items, position, names) ==
    LET W1 == AxSet(W, ax, "set_xticks", position)
        lim == <<position[1], position[Len(position)]>>
    IN IF names = NoneArg THEN Ok(AxSet(W1, ax, "set_xlim", lim), ax)
       ELSE IF ViolinNamesBad(items, The(names)) THEN Raise(W1, "ValueError")
       ELSE Ok(AxSet(AxSet(W1, ax, "set_xticklabels", The(names)), ax,
                     "set_xlim", lim), ax)

violin(W, vals, inner, position0, join_rm, names, kwargs0) ==
    LET p == PopAx(W, kwargs0)
        ax == p.ax
        nv == ViolinNormalise(vals)
    IN IF nv.status # "ok" THEN Raise(p.W, nv.status)
       ELSE
       LET items == nv.items
           W2 == AxPlot(p.W, ax, "probe", KwColor(p.kwargs), 1, <<>>, p.kwargs, <<>>)
           color == LastArt(W2, ax).color
           W3 == LineRemove(W2, ax)
           position == ViolinPosition(position0, Len(items))
           r == ViolinLoop(W3, ax, items, position, inner, color, 1)
       IN IF r.status # "ok" THEN r
          ELSE
          LET j == IF join_rm THEN ViolinJoin(r.W, ax, items, position, color)
                   ELSE r
          IN IF j.status # "ok" THEN j
             ELSE ViolinFinish(j.W, ax, items, position, names)

\* ---------------------------------------------------- symmatplot, corrplot
CmapFull == [str |-> "full", len |-> 4]
CmapTuple(n) == [str |-> "", len |-> n]

RECURSIVE AxTexts(_, _, _, _)
AxTexts(W, ax, kind, n) ==
    IF n = 0 THEN W
    ELSE AxTexts(AxDraw(W, ax, "text", kind, "", 1, <<>>, NoKw, <<>>), ax, kind, n - 1)

\* zip(*np.triu_indices(nvars, 1)): the pairs i < j
NPairs(nvars) == Cardinality({ij \in (1..nvars) \X (1..nvars) : ij[1] < ij[2]})

symmatplot(W, nvars, names, cmap_range, cbar, kwargs0) ==
    LET p == PopAx(W, kwargs0)
        ax == p.ax
    IN IF cmap_range # NoneArg /\ The(cmap_range).len # 2
       THEN Raise(p.W, "ValueError")
       ELSE
       LET W2 == AxDraw(p.W, ax, "matshow", "image", "", 1, <<>>,
                        [x \in (DOMAIN p.kwargs) \cup {"cmap", "vmin", "vmax"} |-> ""],
                        <<>>)
           W3 == IF cbar THEN Colorbar(W2) ELSE W2
           W4 == AxTexts(W3, ax, "value", NPairs(nvars))
           W5 == AxTexts(W4, ax, "name",
                         IF names = NoneArg THEN nvars ELSE Len(The(names)))
           W6 == AxSet(W5, ax, "set_xticks", Ints(1, nvars))
           W7 == AxSet(W6, ax, "set_yticks", Ints(1, nvars))
           W8 == AxSet(W7, ax, "set_xticklabels", <<>>)
           W9 == AxSet(W8, ax, "set_yticklabels", <<>>)
       IN Ok(AxSet(W9, ax, "grid", <<>>), ax)

corrplot(W, nvars, names, cmap_range, cbar, kwargs) ==
    LET range == IF cmap_range = NoneArg THEN Some(CmapTuple(2))
                 ELSE IF The(cmap_range) = CmapFull
                 THEN Some(CmapTuple(2))
                 ELSE cmap_range
    IN symmatplot(W, nvars, names, range, cbar, kwargs)

\* ----------------------------------------------------------------- actions
Work == [plt |-> plt, axs |-> axs, del |-> overlapDel, log |-> <<>>]

Made == {a \in AxisIds : axs[a].made}
AxArgs == {None} \cup Made
Idle == last.fn = ""
Free == AxisIds \ Made
\* a call makes at most a subplot and a colour bar axis
Room == Cardinality(Free) >= 2

\* the keywords of a call: ax=a unless a is None, and color=... if asked
AxKw(a) == IF a = None THEN NoKw ELSE [ax |-> a]
Kw(a, colored) == IF colored THEN With(AxKw(a), "color", UserColor) ELSE AxKw(a)

Finish(fn, args, r) ==
    /\ plt' = r.W.plt
    /\ axs' = r.W.axs
    /\ last' = [fn |-> fn, args |-> args, status |-> r.status, ret |-> r.ret,
                log |-> r.W.log, pre |-> [plt |-> plt, axs |-> axs]]
    /\ UNCHANGED overlapDel

Init ==
    /\ plt = [fig |-> {}, geom |-> [a \in AxisIds |-> ""], cur |-> None]
    /\ axs = [a \in AxisIds |-> NoAxis]
    /\ overlapDel \in BOOLEAN
    /\ last = [fn |-> ""]

\* The caller makes a subplot of its own before calling into the module.
CallerSubplot ==
    /\ Idle
    /\ Cardinality(Free) > 2
    /\ \E g \in Geoms :
         LET W == Subplot(Work, g)
         IN /\ plt' = W.plt
            /\ axs' = W.axs
    /\ UNCHANGED <<overlapDel, last>>

\* The caller draws a line of its own on an axis that has none yet.
CallerPlot ==
    /\ Idle
    /\ \E a \in Made :
         /\ axs[a].art = <<>>
         /\ axs' = AxPlot(Work, a, "caller", "", 1, <<>>, NoKw, <<>>).axs
    /\ UNCHANGED <<plt, overlapDel, last>>

TsplotCall(Styles, Obs, Colored) ==
    /\ Idle /\ Room
    /\ \E nobs \in Obs, err_style \in Styles, axArg \in AxArgs, c \in Colored :
         Finish("tsplot",
                [ax |-> axArg, err_style |-> err_style, nobs |-> nobs, colored |-> c],
                tsplot(Work, nobs, err_style, axArg, Kw(None, c)))

RegplotCall ==
    /\ Idle /\ Room
    /\ \E axArg \in AxArgs, c \in BOOLEAN :
         Finish("regplot", [ax |-> axArg, colored |-> c],
                regplot(Work, axArg, Kw(None, c)))

RugplotCall ==
    /\ Idle /\ Room
    /\ \E axArg \in AxArgs, c \in BOOLEAN, n \in {MaxObs} :
         Finish("rugplot", [ax |-> axArg, colored |-> c],
                rugplot(Work, n, axArg, Kw(None, c)))

KdeplotCall ==
    /\ Idle /\ Room
    /\ \E axArg \in AxArgs, c \in BOOLEAN, hist \in BOOLEAN, rug \in BOOLEAN,
          shade \in BOOLEAN :
         Finish("kdeplot",
                [ax |-> axArg, colored |-> c, hist |-> hist, rug |-> rug, shade |-> shade],
                kdeplot(Work, MaxObs, hist, rug, shade, Kw(axArg, c)))

BoxplotCall(Vals, Join, Names, Colors, Positions) ==
    /\ Idle /\ Room
    /\ \E vals \in Vals, join_rm \in Join, names \in Names, color \in Colors,
          pos \in Positions, axArg \in AxArgs :
         LET kwargs == IF pos THEN With(AxKw(axArg), "positions",
                                       Ints(2, BoxCount(vals)))
                       ELSE AxKw(axArg)
         IN Finish("boxplot",
                   [ax |-> axArg, vals |-> vals, join_rm |-> join_rm, names |-> names,
                    color |-> color, K |-> DOMAIN kwargs],
                   boxplot(Work, vals, join_rm, names, color, kwargs))

ViolinCall(Vals, Inner, Position, Join, Names) ==
    /\ Idle /\ Room
    /\ \E vals \in Vals, inner \in Inner, position \in Position, join_rm \in Join,
          names \in Names, axArg \in AxArgs :
         Finish("violin",
                [ax |-> axArg, vals |-> vals, inner |-> inner, position |-> position,
                 join_rm |-> join_rm, names |-> names],
                violin(Work, vals, inner, position, join_rm, names, AxKw(axArg)))

SymmatplotCall ==
    /\ Idle /\ Room
    /\ \E nvars \in {MaxVars}, axArg \in AxArgs, cbar \in BOOLEAN,
          cmap_range \in {NoneArg, Some(CmapTuple(MaxVars + 1))} :
         Finish("symmatplot",
                [ax |-> axArg, nvars |-> nvars, cbar |-> cbar, cmap_range |-> cmap_range],
                symmatplot(Work, nvars, NoneArg, cmap_range, cbar, AxKw(axArg)))

CorrplotCall ==
    /\ Idle /\ Room
    /\ \E nvars \in {MaxVars}, axArg \in AxArgs, cbar \in BOOLEAN,
          cmap_range \in {NoneArg, Some(CmapFull)} :
         Finish("corrplot",
                [ax |-> axArg, nvars |-> nvars, cbar |-> cbar, cmap_range |-> cmap_range],
                corrplot(Work, nvars, NoneArg, cmap_range, cbar, AxKw(axArg)))

\* ------------------------------------------------------------ input sets
NoPosition == [kind |-> "none", v |-> <<>>]
ScalarPosition(x) == [kind |-> "scalar", v |-> <<x>>]
SeqPosition(v) == [kind |-> "seq", v |-> v]

\* well-formed data: k >= 1 bins of n >= 2 observations
BinnedVals ==
    {Arrays(k, n) : k \in 1..MaxBins, n \in 2..(MaxObs + 1)}
    \cup {Arr(<<n, k>>) : k \in 1..MaxBins, n \in 2..(MaxObs + 1)}

\* every shape of input, the empty and the over-dimensioned included
AllVals ==
    {Arr(<<>>), Arr(<<1, 1, 1>>)}
    \cup {Arr(<<n>>) : n \in 0..MaxObs}
    \cup {Arr(<<nr, nc>>) : nr \in 0..MaxObs, nc \in 0..MaxBins}
    \cup {Scalars(n) : n \in 0..MaxObs}
    \cup {Arrays(k, n) : k \in 1..MaxBins, n \in 1..MaxObs}

NamesUpTo(n) == {NoneArg} \cup {Some(Ints(1, m)) : m \in 1..n}

\* ---------------------------------------------------------- specifications
\* Every function on every axis the caller may pass, with default data.
Tsplot == TsplotCall({<<"ci_band">>}, {MaxObs}, BOOLEAN)
Regplot == RegplotCall
Rugplot == RugplotCall
Kdeplot == KdeplotCall
Boxplot == BoxplotCall({Arrays(MaxBins, MaxObs)}, {FALSE}, {NoneArg},
                       {NoneArg, Some(UserColor)}, {FALSE})
Violin == ViolinCall({Arrays(MaxBins, MaxObs)}, {"box"}, {NoPosition}, {FALSE}, {NoneArg})
Symmatplot == SymmatplotCall
Corrplot == CorrplotCall

Next ==
    \/ CallerSubplot
    \/ CallerPlot
    \/ Tsplot
    \/ Regplot
    \/ Rugplot
    \/ Kdeplot
    \/ Boxplot
    \/ Violin
    \/ Symmatplot
    \/ Corrplot

Spec == Init /\ [][Next]_vars

\* tsplot with every err_style list.
TsplotStyles ==
    TsplotCall(SeqsUpTo(StyleNames \cup {"ci_bands"}, MaxStyles), {MaxObs}, BOOLEAN)

NextTs ==
    \/ CallerSubplot
    \/ CallerPlot
    \/ TsplotStyles

SpecTs == Init /\ [][NextTs]_vars

\* boxplot and violin over the shapes of data, names, positions and keywords.
BoxplotNames ==
    BoxplotCall(BinnedVals, {FALSE}, NamesUpTo(MaxBins + 2), {Some(UserColor)}, {FALSE})
BoxplotKw ==
    BoxplotCall({Arrays(MaxBins, MaxObs)}, BOOLEAN, {NoneArg},
                {NoneArg, Some(UserColor)}, BOOLEAN)
ViolinNames ==
    ViolinCall(BinnedVals, {"box"}, {NoPosition}, {FALSE}, NamesUpTo(MaxBins + 2))
ViolinShapes ==
    ViolinCall(AllVals, {"box", "stick"}, {NoPosition}, {FALSE}, {NoneArg})
ViolinJoinRm ==
    ViolinCall({Arrays(k, n) : k \in 1..MaxBins, n \in 2..(MaxObs + 1)},
               {"box"},
               {NoPosition, ScalarPosition(MaxBins + 1)}
                   \cup {SeqPosition([i \in 1..k |-> i * i + 1]) : k \in 1..MaxBins},
               BOOLEAN, {NoneArg})

NextData ==
    \/ CallerSubplot
    \/ BoxplotNames
    \/ BoxplotKw
    \/ ViolinNames
    \/ ViolinShapes
    \/ ViolinJoinRm

SpecData == Init /\ [][NextData]_vars

\* ------------------------------------------------------------------ claims
Called(fn) == last.fn = fn
Done(fn) == last.fn = fn /\ last.status = "ok"
IsAxisMaking(o) == o.op \in {"subplot", "colorbar"}
IsDrawCall(o) == ~IsAxisMaking(o)
DrawCalls == SelectSeq(last.log, IsDrawCall)
AllDrawnOn(a) == \A i \in 1..Len(DrawCalls) : DrawCalls[i].ax = a
NewAxes == {a \in AxisIds : axs[a].made /\ ~last.pre.axs[a].made}

\* C1: a tsplot call given an axis A draws every artist on A and returns A.
C1_TsplotUsesGivenAxis ==
    (Done("tsplot") /\ last.args.ax # None)
        => (last.ret = last.args.ax /\ AllDrawnOn(last.args.ax))

AxisKeeping == {"regplot", "rugplot", "boxplot", "kdeplot", "violin",
                "symmatplot", "corrplot"}

ClaimStyles == {"ci_band", "ci_bars", "boot_traces", "obs_traces", "obs_points"}
IsStyleCall(o) == o.kind \in ClaimStyles
StyleCalls == SelectSeq(last.log, IsStyleCall)

\* C3: tsplot raises ValueError exactly when err_style holds a name outside
\* {ci_band, ci_bars, boot_traces, obs_traces, obs_points}; when every entry
\* is in the set, the routine of each entry runs once, in list order.
C3_ErrStyleValidation ==
    Called("tsplot") =>
        LET es == last.args.err_style
            bad == \E i \in 1..Len(es) : es[i] \notin ClaimStyles
        IN /\ (last.status = "ValueError") <=> bad
           /\ ~bad => /\ Len(StyleCalls) = Len(es)
                      /\ \A i \in 1..Len(es) : StyleCalls[i].kind = es[i]

C3_Witness ==
    /\ Called("tsplot")
    /\ last.args.err_style = <<"obs_points", "ci_bands">>
    /\ last.status = "ValueError"
    /\ Len(StyleCalls) = 1

IsBody(o) == o.kind = "body"
Bodies == SelectSeq(last.log, IsBody)
IsBoxes(o) == o.op = "boxplot"
BoxCalls == SelectSeq(last.log, IsBoxes)
\* the bins a call drew
BinsDrawn == IF last.fn = "boxplot" THEN BoxCalls[1].n ELSE Len(Bodies)
BinnedInput(vals) ==
    vals.form = "arrays" \/ (vals.form = "array" /\ Len(vals.shape) = 2)

\* C4: boxplot and violin, given a sequence of containers or a 2-D array,
\* raise ValueError exactly when names is given and its length differs from
\* the number of bins drawn; with one name per bin the names become the
\* x tick labels.
C4_NamesMatchBins ==
    (last.fn \in {"boxplot", "violin"} /\ BinnedInput(last.args.vals)
        /\ last.status \in {"ok", "ValueError"})
        => /\ (last.status = "ValueError")
                <=> (last.args.names # NoneArg /\ Len(The(last.args.names)) # BinsDrawn)
           /\ (last.args.names # NoneArg /\ Len(The(last.args.names)) = BinsDrawn)
                => axs[last.ret].xticklabels = The(last.args.names)

\* The violins the claim expects of each shape of input.
ExpectedViolins(vals) ==
    IF vals.form = "arrays"
    THEN [i \in 1..vals.shape[1] |-> [j \in 1..vals.shape[2] |-> <<i, j>>]]
    ELSE IF Len(vals.shape) = 1
    THEN <<[j \in 1..vals.shape[1] |-> <<j>>]>>
    ELSE IF vals.shape[2] = 1
    THEN <<[i \in 1..vals.shape[1] |-> <<i, 1>>]>>
    ELSE IF vals.shape[1] = 1
    THEN <<[j \in 1..vals.shape[2] |-> <<1, j>>]>>
    ELSE [c \in 1..vals.shape[2] |-> [i \in 1..vals.shape[1] |-> <<i, c>>]]

PlainViolin ==
    /\ Called("violin")
    /\ last.args.names = NoneArg
    /\ ~last.args.join_rm
    /\ last.args.position.kind = "none"

ViolinsAsExpected ==
    /\ last.status = "ok"
    /\ Len(Bodies) = Len(ExpectedViolins(last.args.vals))
    /\ \A i \in 1..Len(Bodies) : Bodies[i].data = ExpectedViolins(last.args.vals)[i]

TooManyDims(vals) == vals.form = "array" /\ Len(vals.shape) > 2
NonEmpty(vals) == Len(vals.shape) >= 1 /\ \A d \in 1..Len(vals.shape) : vals.shape[d] >= 1

C6_KeywordsForwarded ==
    (Called("boxplot") /\ BoxCalls # <<>>)
        => BoxCalls[1].kw = (last.args.K \ {"ax"}) \cup {"patch_artist"}

IsJoin(o) == o.kind = "join"
Joins == SelectSeq(last.log, IsJoin)

\* C7: with join_rm, violin draws for k violins of n observations n lines,
\* line j through the j-th value of every violin, its k points at the x
\* positions of the violins (the x ticks).
C7_JoinLines ==
    (Done("violin") /\ last.args.join_rm) =>
        LET k == last.args.vals.shape[1]
            n == last.args.vals.shape[2]
            J == Joins[1]
        IN /\ Len(Joins) = 1
           /\ J.n = n
           /\ J.data = [j \in 1..n |-> [i \in 1..k |-> <<i, j>>]]
           /\ J.xs = axs[last.ret].xticks
           /\ \A i \in 1..k : J.xs[i] = Bodies[i].xs[1]

\* C8: a successful tsplot plots and removes a probe line first, then runs
\* the err_style routines in list order with the probe's colour, then plots
\* the central trace in that colour; on return the central trace is the one
\* line of its kind the call added, it is the newest artist of the axis and
\* the probe is gone.
C8_TsplotOrder ==
    Done("tsplot") =>
        LET L == DrawCalls
            es == last.args.err_style
            a == last.ret
            m == Len(es)
        IN /\ Len(L) = m + 3
           /\ L[1].op = "plot" /\ L[1].kind = "probe"
           /\ L[2].op = "remove" /\ L[2].kind = "probe"
           /\ \A i \in 1..m : L[i + 2].kind = es[i] /\ L[i + 2].color = L[1].color
           /\ L[Len(L)].op = "plot" /\ L[Len(L)].kind = "central"
           /\ L[Len(L)].color = L[1].color
           /\ axs[a].art = last.pre.axs[a].art \o SubSeq(L, 3, Len(L))
           /\ \A i \in 1..Len(axs[a].art) : axs[a].art[i].kind # "probe"

C8_Witness ==
    /\ Done("tsplot")
    /\ last.args.err_style = <<"obs_traces", "ci_band">>
    /\ last.pre.axs[last.ret].art # <<>>
    /\ axs[last.ret].art[Len(axs[last.ret].art)].kind = "central"
    /\ axs[last.ret].art[Len(axs[last.ret].art)].color # Cycle[1]

\* C9: boxplot, kdeplot, violin, symmatplot and corrplot, given an axis A,
\* make no new subplot and leave the other axes and the current axis as
\* they were.
C9_NoNewSubplot ==
    (last.fn \in {"boxplot", "kdeplot", "violin", "symmatplot", "corrplot"}
        /\ last.args.ax # None)
        => /\ \A i \in 1..Len(last.log) : last.log[i].op # "subplot"
           /\ plt.cur = last.pre.plt.cur
           /\ \A a \in AxisIds \ {last.args.ax} : axs[a] = last.pre.axs[a]
====
